---- MODULE Spec2Model ----
(***************************************************************************)
(* A model of decoder/my_yolo.py: the graph construction done by           *)
(* decoder() (shapes, variable store, dropout), the values computed by     *)
(* loss(), the index arithmetic of _rezoom() and the image writer of       *)
(* evaluation().                                                           *)
(*                                                                         *)
(* Tensors are functions over cells 1..outer_size (row-major over batch    *)
(* and grid); with one slot per cell a box is <<cx, cy, w, h>>.  Real      *)
(* numbers are exact rationals <<n, d>> with d > 0, in lowest terms.       *)
(***************************************************************************)
EXTENDS Integers, Sequences, FiniteSets, TLC

(* ------------------------------ bounds -------------------------------- *)
MaxGridWidth == 2
MaxRnnLen == 2
MaxWeightLosses == 1
MaxStep == 11
MaxCells == 3
MaxChannels == 2

(* ------------------------- program constants -------------------------- *)
dim == 128
num_images == 10

VARIABLES
    hyp,          \* the hyperparameter mapping (never assigned by the code)
    tf_variables, \* the variable store: set of [name, shape]
    built,        \* per phase: what decoder(phase) created, read and returned
    losses,       \* the graph collection 'losses' (a sequence of values)
    summaries,    \* names of the histogram summaries loss() registered
    call,         \* per phase: the loss(phase) call, its inputs, locals and result
    ncalls,       \* number of loss() calls that returned
    nweights,     \* number of terms other components added to 'losses' 
    err,          \* the exception that ended graph construction, if any
    rezoom_out,   \* the result of the latest direct _rezoom() call
    files,        \* output_dir: file name -> the step whose image it holds
    last_image    \* the latest log_image() call

vars == <<hyp, tf_variables, built, losses, summaries, call, ncalls, nweights, err,
          rezoom_out, files, last_image>>

(* ----------------------------- arithmetic ----------------------------- *)
Abs(x) == IF x < 0 THEN -x ELSE x

Min(a, b) == IF a < b THEN a ELSE b

Max(a, b) == IF a > b THEN a ELSE b

RECURSIVE GCD(_, _)
GCD(a, b) == IF b = 0 THEN a ELSE GCD(b, a % b)

\* the rational n/d (d > 0) in lowest terms
Rat(n, d) == LET g == GCD(Abs(n), d) IN <<n \div g, d \div g>>

RInt(n) == <<n, 1>>

LCM(a, b) == (a \div GCD(a, b)) * b

RAdd(a, b) ==
    LET d == LCM(a[2], b[2])
    IN  Rat(a[1] * (d \div a[2]) + b[1] * (d \div b[2]), d)

RMul(a, b) == Rat(a[1] * b[1], a[2] * b[2])

RDivInt(a, k) == Rat(a[1], a[2] * k)

RLeq(a, b) ==
    LET d == LCM(a[2], b[2])
    IN  a[1] * (d \div a[2]) <= b[1] * (d \div b[2])

RLess(a, b) == ~RLeq(b, a)

RECURSIVE RSum(_)
RSum(s) == IF s = <<>> THEN RInt(0) ELSE RAdd(Head(s), RSum(Tail(s)))

RECURSIVE Product(_)
Product(s) == IF s = <<>> THEN 1 ELSE Head(s) * Product(Tail(s))

\* sum of f[i] over the cells 1..n
RECURSIVE SumTo(_, _)
SumTo(f, n) == IF n = 0 THEN 0 ELSE f[n] + SumTo(f, n - 1)

(* ------------------------- hyperparameters ---------------------------- *)
grid_size(h) == h.grid_width * h.grid_height

outer_size(h) == grid_size(h) * h.batch_size

Cells(h) == 1..outer_size(h)

num_offsets(h) == Len(h.rezoom_w_coords) * Len(h.rezoom_h_coords)

Phases == {"train", "val"}

\* faulty variant: the scope never reuses
reuse_never(phase) == FALSE

\* reuse = {'train': None, 'val': True}[phase]
reuse(phase) == phase = "val"

(* ------------------- graph construction: one op at a time ------------- *)
NoErr == [kind |-> "none", at |-> ""]

Reshape(what, n_in, shape) == [op |-> "reshape", at |-> what, n |-> n_in, shape |-> shape]

MatMul(what, a, b) == [op |-> "matmul", at |-> what, a |-> a, b |-> b]

Concat1(what, a, b) == [op |-> "concat", at |-> what, a |-> a, b |-> b]

GetVariable(name, shape) == [op |-> "get_variable", at |-> name, shape |-> shape]

Dropout(what) == [op |-> "dropout", at |-> what]

\* tf.get_variable under a scope with the given reuse flag: with reuse the
\* variable must exist with that shape, without reuse it must not exist.
get_variable(st, o, ru) ==
    LET named == {v \in st.store : v.name = o.at}
        v == [name |-> o.at, shape |-> o.shape]
    IN  IF ru
        THEN IF named = {} \/ v \notin named
             THEN [st EXCEPT !.err = [kind |-> "variable", at |-> o.at]]
             ELSE [st EXCEPT !.reads = @ \cup {v}]
        ELSE IF named # {}
             THEN [st EXCEPT !.err = [kind |-> "variable", at |-> o.at]]
             ELSE [st EXCEPT !.store = @ \cup {v},
                             !.created = @ \cup {v},
                             !.reads = @ \cup {v}]

\* the effect of one construction op; a mismatch raises
Step(st, o, ru) ==
    CASE o.op = "reshape" ->
            IF o.n = Product(o.shape) THEN st
            ELSE [st EXCEPT !.err = [kind |-> "reshape", at |-> o.at]]
      [] o.op = "matmul" ->
            IF Len(o.a) = 2 /\ Len(o.b) = 2 /\ o.a[2] = o.b[1] THEN st
            ELSE [st EXCEPT !.err = [kind |-> "matmul", at |-> o.at]]
      [] o.op = "concat" ->
            IF Len(o.a) = 2 /\ Len(o.b) = 2 /\ o.a[1] = o.b[1] THEN st
            ELSE [st EXCEPT !.err = [kind |-> "concat", at |-> o.at]]
      [] o.op = "get_variable" -> get_variable(st, o, ru)
      [] o.op = "dropout" -> [st EXCEPT !.dropouts = @ + 1]

\* run the ops in program order; the first exception ends the build
RECURSIVE Exec(_, _, _)
Exec(ops, st, ru) ==
    IF ops = <<>> \/ st.err # NoErr THEN st
    ELSE Exec(Tail(ops), Step(st, Head(ops), ru), ru)

RECURSIVE Flatten(_)
Flatten(ss) == IF ss = <<>> THEN <<>> ELSE Head(ss) \o Flatten(Tail(ss))

(* ------------------------------ decoder ------------------------------- *)
\* tf.variable_scope joins nested scope names with '/'
VarName(scope, name) == scope \o "/" \o name

\* the encoder's cnn_output holds one cnn_channels vector per cell
cnn_output_elems(h) == h.batch_size * h.grid_height * h.grid_width * h.cnn_channels

\* _build_yolo_fc_layer: reshape, the Overfeat/ip weights, matmul
_build_yolo_fc_layer(h, scope) ==
    LET channels == h.cnn_channels
        num_ex == h.batch_size * grid_size(h)
    IN  << Reshape("lstm_input", num_ex * channels, <<h.batch_size * grid_size(h), channels>>),
           GetVariable(VarName(VarName(scope, "Overfeat"), "ip"),
                       <<h.cnn_channels, h.lstm_size>>),
           MatMul("raw_output", <<num_ex, channels>>, <<h.cnn_channels, h.lstm_size>>) >>

\* the declared shapes of decoder()'s reshapes
pred_box_shape(h) == <<outer_size(h), 1, 4>>

pred_logits_shape(h) == <<outer_size(h), h.num_classes>>

\* faulty variant: the slot axis dropped from the declared shape
pred_confidences_flat(h) == <<outer_size(h), h.num_classes>>

pred_confidences_shape(h) == <<outer_size(h), h.rnn_len, h.num_classes>>

\* bilinear_select yields one index per box of pred_boxes and interp one
\* early_feat_channels vector per index
interp_elems(h, n_boxes) == num_offsets(h) * n_boxes * h.early_feat_channels

\* _rezoom as construction ops: its two reshapes
_rezoom_ops(h, n_boxes) ==
    << Reshape("rezoom_features_r", interp_elems(h, n_boxes),
               <<num_offsets(h), outer_size(h), h.rnn_len, h.early_feat_channels>>),
       Reshape("rezoom_features",
               num_offsets(h) * outer_size(h) * h.rnn_len * h.early_feat_channels,
               <<outer_size(h), h.rnn_len, num_offsets(h) * h.early_feat_channels>>) >>

\* the names of the weights of slot k: 'delta_ip1%d' % k, ...
delta_ip1(scope, k) == VarName(scope, "delta_ip1" \o ToString(k))

delta_ip2(scope, k) == VarName(scope, "delta_ip2" \o ToString(k))

delta_ip_boxes(scope, k) == VarName(scope, "delta_ip_boxes" \o ToString(k))

\* one iteration of apply_rezoom's loop over the slots, k in range(rnn_len)
apply_rezoom_slot(h, phase, scope, k) ==
    LET feat == h.lstm_size + h.early_feat_channels * num_offsets(h)
    IN  << Concat1("delta_features", <<outer_size(h), h.lstm_size>>,
                   <<outer_size(h), num_offsets(h) * h.early_feat_channels>>),
           GetVariable(delta_ip1(scope, k), <<feat, dim>>),
           MatMul("ip1", <<outer_size(h), feat>>, <<feat, dim>>) >>
        \o (IF phase = "train" THEN <<Dropout("ip1")>> ELSE <<>>)
        \o << GetVariable(delta_ip2(scope, k), <<dim, h.num_classes>>) >>
        \o (IF h.reregress
            THEN << GetVariable(delta_ip_boxes(scope, k), <<dim, 4>>),
                    MatMul("rere_feature", <<outer_size(h), dim>>, <<dim, 4>>),
                    Reshape("pred_boxes_deltas", outer_size(h) * 4,
                            <<outer_size(h), 1, 4>>) >>
            ELSE <<>>)
        \o << MatMul("feature2", <<outer_size(h), dim>>, <<dim, h.num_classes>>),
              Reshape("pred_confs_deltas_k", outer_size(h) * h.num_classes,
                      <<outer_size(h), 1, h.num_classes>>) >>

\* apply_rezoom: _rezoom, dropout when training, the slots, the reshapes
apply_rezoom(h, phase, scope) ==
    _rezoom_ops(h, Product(pred_box_shape(h)) \div 4)
    \o (IF phase = "train" THEN <<Dropout("rezoom_features")>> ELSE <<>>)
    \o Flatten([k \in 1..h.rnn_len |-> apply_rezoom_slot(h, phase, scope, k - 1)])
    \o << Reshape("pred_confs_deltas", outer_size(h) * h.rnn_len * h.num_classes,
                  <<outer_size(h) * h.rnn_len, h.num_classes>>),
          Reshape("pred_logits_squash", outer_size(h) * h.rnn_len * h.num_classes,
                  <<outer_size(h) * h.rnn_len, h.num_classes>>),
          Reshape("pred_confidences_squash", outer_size(h) * h.rnn_len * h.num_classes,
                  <<outer_size(h), h.rnn_len, h.num_classes>>) >>

\* decoder(): every construction op between its entry and its return
decoder_ops(h, phase) ==
    LET num_ex == h.batch_size * h.grid_width * h.grid_height
        scope == "decoder"
    IN  << Reshape("cnn_output", cnn_output_elems(h), <<num_ex, h.cnn_channels>>) >>
        \o _build_yolo_fc_layer(h, scope)
        \o (IF phase = "train" THEN <<Dropout("raw_output")>> ELSE <<>>)
        \o << GetVariable(VarName(scope, "box_ip"), <<h.lstm_size, 4>>),
              GetVariable(VarName(scope, "conf_ip"), <<h.lstm_size, h.num_classes>>),
              MatMul("pred_box", <<num_ex, h.lstm_size>>, <<h.lstm_size, 4>>),
              Reshape("pred_box", num_ex * 4, pred_box_shape(h)),
              MatMul("pred_logits", <<num_ex, h.lstm_size>>, <<h.lstm_size, h.num_classes>>),
              Reshape("pred_logits", num_ex * h.num_classes, pred_logits_shape(h)),
              Reshape("pred_confidences", Product(pred_logits_shape(h)),
                      pred_confidences_shape(h)) >>
        \o (IF h.use_rezoom THEN apply_rezoom(h, phase, scope) ELSE <<>>)

None == <<>>

\* the shapes of the five tensors decoder() returns
decoder_outputs(h) ==
    [pred_box |-> pred_box_shape(h),
     pred_logits |-> pred_logits_shape(h),
     pred_confidences |-> pred_confidences_shape(h),
     pred_confs_deltas |-> IF h.use_rezoom
                           THEN <<outer_size(h) * h.rnn_len, h.num_classes>>
                           ELSE None,
     pred_boxes_deltas |-> IF h.use_rezoom /\ h.reregress
                           THEN <<outer_size(h), h.rnn_len, 4>>
                           ELSE None]

NoOutputs ==
    [pred_box |-> None, pred_logits |-> None, pred_confidences |-> None,
     pred_confs_deltas |-> None, pred_boxes_deltas |-> None]

NotBuilt ==
    [status |-> "none", created |-> {}, reads |-> {}, dropouts |-> 0,
     outs |-> NoOutputs]

\* a call of decoder(hyp, logits, phase)
decoder(phase) ==
    /\ err = NoErr
    /\ built[phase].status = "none"
    /\ LET st0 == [store |-> tf_variables, created |-> {}, reads |-> {},
                   dropouts |-> 0, err |-> NoErr]
           st == Exec(decoder_ops(hyp, phase), st0, reuse(phase))
       IN  /\ tf_variables' = st.store
           /\ err' = st.err
           /\ built' = [built EXCEPT ![phase] =
                   [status |-> IF st.err = NoErr THEN "ok" ELSE "failed",
                    created |-> st.created,
                    reads |-> st.reads,
                    dropouts |-> st.dropouts,
                    outs |-> IF st.err = NoErr THEN decoder_outputs(hyp)
                             ELSE NoOutputs]]
    /\ UNCHANGED <<hyp, losses, summaries, call, ncalls, nweights, rezoom_out, files,
                   last_image>>

(* ------------------------- inputs of loss() --------------------------- *)
ZeroBox == <<0, 0, 0, 0>>

\* what the input pipeline can put into one cell: flag and box
LabelSamples ==
    << [flag |-> 0, box |-> ZeroBox],
       [flag |-> 1, box |-> <<10, 10, 4, 4>>],
       [flag |-> 0, box |-> <<3, 0, 0, 0>>],
       [flag |-> 2, box |-> <<30, 10, 2, 0>>] >>

\* what the network can put out for one cell
PredSamples ==
    << [box |-> <<10, 10, 4, 4>>, logits |-> <<-1, 1>>,
        dlogits |-> <<0, 1>>, dbox |-> ZeroBox],
       [box |-> <<30, 11, 2, 2>>, logits |-> <<1, 0>>,
        dlogits |-> <<1, -1>>, dbox |-> <<0, -1, 2, 1>>] >>

Pick(samples, p, c) == samples[((p + c - 2) % Len(samples)) + 1]

\* the tensors of one loss() call: cell c holds sample p + c - 1 (cyclic)
Inputs(h, lp, pp) ==
    [flags |-> [c \in Cells(h) |-> Pick(LabelSamples, lp, c).flag],
     boxes |-> [c \in Cells(h) |-> Pick(LabelSamples, lp, c).box],
     pred_boxes |-> [c \in Cells(h) |-> Pick(PredSamples, pp, c).box],
     pred_logits |-> [c \in Cells(h) |-> Pick(PredSamples, pp, c).logits],
     pred_confs_deltas |-> IF h.use_rezoom
                           THEN [c \in Cells(h) |-> Pick(PredSamples, pp, c).dlogits]
                           ELSE None,
     pred_boxes_deltas |-> IF h.use_rezoom /\ h.reregress
                           THEN [c \in Cells(h) |-> Pick(PredSamples, pp, c).dbox]
                           ELSE None]

(* ------------------------------- loss --------------------------------- *)
\* tf.user_ops.hungarian with one predicted slot per cell: a present truth box
\* is matched to it; an unmatched slot has class 0 and mask 0, and its
\* permuted truth is either cleared or left as supplied.
hungarian(h, inp) ==
    { [classes |-> [c \in Cells(h) |-> inp.flags[c]],
       perm_truth |-> [c \in Cells(h) |->
           IF inp.flags[c] > 0 \/ keep THEN inp.boxes[c] ELSE ZeroBox],
       pred_mask |-> [c \in Cells(h) |-> IF inp.flags[c] > 0 THEN 1 ELSE 0]]
      : keep \in BOOLEAN }

\* the single-slot branch: classes, perm_truth and pred_mask from the labels
single_slot(h, inp) ==
    [classes |-> [c \in Cells(h) |-> inp.flags[c]],
     perm_truth |-> [c \in Cells(h) |-> inp.boxes[c]],
     pred_mask |-> [c \in Cells(h) |-> IF inp.flags[c] > 0 THEN 1 ELSE 0]]

matcher(h, inp) == IF h.use_lstm THEN hungarian(h, inp) ELSE {single_slot(h, inp)}

\* log(1 + e^d) in hundredths, d the logit of the other class minus the
\* logit of the label
Softplus(d) ==
    CASE d = -2 -> Rat(13, 100)
      [] d = -1 -> Rat(31, 100)
      [] d = 0 -> Rat(69, 100)
      [] d = 1 -> Rat(131, 100)
      [] d = 2 -> Rat(213, 100)

\* two classes: -log softmax(logits)[label]
sparse_softmax_cross_entropy_with_logits(logits, label) ==
    Softplus(logits[2 - label] - logits[label + 1])

true_classes(mt, c) == IF mt.classes[c] > 0 THEN 1 ELSE 0

cross_entropy_sum(h, inp, mt) ==
    RSum([c \in Cells(h) |->
        sparse_softmax_cross_entropy_with_logits(inp.pred_logits[c], true_classes(mt, c))])

confidences_loss(h, inp, mt) ==
    RMul(RDivInt(cross_entropy_sum(h, inp, mt), outer_size(h)), h.head_weights[1])

\* perm_truth - pred_boxes * pred_mask
residual(inp, mt, c, j) == mt.perm_truth[c][j] - inp.pred_boxes[c][j] * mt.pred_mask[c]

\* the sum of a 4-vector's entries over all cells
SumCells(h, f(_, _)) == SumTo([c \in Cells(h) |-> f(c, 1) + f(c, 2) + f(c, 3) + f(c, 4)],
                              outer_size(h))

\* faulty variant: the residuals summed without tf.abs
boxes_loss_signed(h, inp, mt) ==
    LET a(c, j) == residual(inp, mt, c, j)
    IN  RMul(RDivInt(RInt(SumCells(h, a)), outer_size(h)), h.head_weights[2])

boxes_loss_base(h, inp, mt) ==
    LET a(c, j) == Abs(residual(inp, mt, c, j))
    IN  RMul(RDivInt(RInt(SumCells(h, a)), outer_size(h)), h.head_weights[2])

\* train_utils.iou of two boxes given by center and size, compared to 0.5;
\* coordinates doubled so that the corners are integers
iou_above_half(a, b) ==
    LET iw == Max(0, Min(2 * a[1] + a[3], 2 * b[1] + b[3])
                     - Max(2 * a[1] - a[3], 2 * b[1] - b[3]))
        ih == Max(0, Min(2 * a[2] + a[4], 2 * b[2] + b[4])
                     - Max(2 * a[2] - a[4], 2 * b[2] - b[4]))
        inter == iw * ih
        union == 4 * a[3] * a[4] + 4 * b[3] * b[4] - inter
    IN  union > 0 /\ 2 * inter > union

\* the target of the delta-confidence loss, by hypes['rezoom_change_loss']
inside(h, inp, mt, c) ==
    CASE h.rezoom_change_loss = "center" ->
            LET t == mt.perm_truth[c]
                p == inp.pred_boxes[c]
                mw == Max(t[3], 1)
                mh == Max(t[4], 1)
                dx == t[1] - p[1]
                dy == t[2] - p[2]
            IN  IF 25 * (dx * dx * mh * mh + dy * dy * mw * mw) < mw * mw * mh * mh
                   /\ mt.classes[c] > 0
                THEN 1 ELSE 0
      [] h.rezoom_change_loss = "iou" ->
            IF iou_above_half(inp.pred_boxes[c], mt.perm_truth[c]) THEN 1 ELSE 0
      [] OTHER -> IF mt.classes[c] > 0 THEN 1 ELSE 0

\* assert not hypes['rezoom_change_loss'] in the last branch
loss_raises(h) ==
    h.use_rezoom /\ h.rezoom_change_loss \notin {"center", "iou", ""}

delta_confs_loss(h, inp, mt) ==
    RMul(RMul(RDivInt(RSum([c \in Cells(h) |->
                  sparse_softmax_cross_entropy_with_logits(inp.pred_confs_deltas[c],
                                                           inside(h, inp, mt, c))]),
                      outer_size(h)),
              h.head_weights[1]),
         Rat(1, 10))

\* (perm_truth - (pred_boxes + pred_boxes_deltas)) * pred_mask
delta_residual(inp, mt, c, j) ==
    (mt.perm_truth[c][j] - (inp.pred_boxes[c][j] + inp.pred_boxes_deltas[c][j]))
        * mt.pred_mask[c]

\* faulty variant: the square left unclipped
square_unclipped(r) == r * r

\* tf.minimum(tf.square(delta_residual), 10. ** 2)
sqrt_delta(r) == Min(r * r, 10 * 10)

delta_boxes_loss(h, inp, mt) ==
    LET q(c, j) == sqrt_delta(delta_residual(inp, mt, c, j))
    IN  RMul(RMul(RDivInt(RInt(SumCells(h, q)), outer_size(h)), h.head_weights[2]),
             Rat(3, 100))

\* faulty variant: boxes_loss never rebound to delta_boxes_loss
returned_l1_loss(h, inp, mt) == boxes_loss_base(h, inp, mt)

\* the value bound to boxes_loss at the return statement
returned_boxes_loss(h, inp, mt) ==
    IF h.use_rezoom /\ h.reregress
    THEN delta_boxes_loss(h, inp, mt)
    ELSE boxes_loss_base(h, inp, mt)

\* the value bound to loss when it is added to the collection
loss_term(h, inp, mt) ==
    IF h.use_rezoom
    THEN LET l == RAdd(RAdd(confidences_loss(h, inp, mt), boxes_loss_base(h, inp, mt)),
                       delta_confs_loss(h, inp, mt))
         IN  IF h.reregress THEN RAdd(l, delta_boxes_loss(h, inp, mt)) ELSE l
    ELSE RAdd(confidences_loss(h, inp, mt), boxes_loss_base(h, inp, mt))

\* faulty variant: only the term of this call is returned
total_loss_own(collection) == collection[Len(collection)]

\* tf.add_n(tf.get_collection('losses'))
total_loss(collection) == RSum(collection)

\* the tf.histogram_summary calls of the reregress branch
delta_histograms(h, phase) ==
    IF h.use_rezoom /\ h.reregress
    THEN {phase \o "/delta_hist0_x", phase \o "/delta_hist0_y",
          phase \o "/delta_hist0_w", phase \o "/delta_hist0_h"}
    ELSE {}

\* the reshapes of loss(), with labels shaped as hypes says
loss_ops(h) ==
    << Reshape("outer_boxes", outer_size(h) * h.rnn_len * 4,
               <<outer_size(h), h.rnn_len, 4>>),
       Reshape("outer_flags", outer_size(h) * h.rnn_len, <<outer_size(h), h.rnn_len>>) >>
    \o (IF h.use_lstm THEN <<>>
        ELSE << Reshape("classes", outer_size(h) * h.rnn_len, <<outer_size(h), 1>>),
                Reshape("perm_truth", outer_size(h) * h.rnn_len * 4,
                        <<outer_size(h), 1, 4>>),
                Reshape("pred_mask", outer_size(h), <<outer_size(h), 1, 1>>) >>)
    \o << Reshape("true_classes",
                  IF h.use_lstm THEN outer_size(h) * h.rnn_len ELSE outer_size(h),
                  <<outer_size(h) * h.rnn_len>>),
          Reshape("pred_logit_r", Product(pred_logits_shape(h)),
                  <<outer_size(h) * h.rnn_len, h.num_classes>>),
          Reshape("residual",
                  IF h.use_lstm THEN outer_size(h) * h.rnn_len * 4 ELSE outer_size(h) * 4,
                  <<outer_size(h), h.rnn_len, 4>>) >>

NoCall == [phase |-> "none"]

\* a call of loss(hypes, decoded_logits, labels, phase) on decoder(phase)'s output
loss(phase) ==
    /\ err = NoErr
    /\ built[phase].status = "ok"
    /\ call[phase] = NoCall
    /\ \E lp \in 1..Len(LabelSamples), pp \in 1..Len(PredSamples) :
         LET inp == Inputs(hyp, lp, pp)
             st0 == [store |-> tf_variables, created |-> {}, reads |-> {},
                     dropouts |-> 0, err |-> NoErr]
             st == Exec(loss_ops(hyp), st0, reuse(phase))
         IN  \E mt \in matcher(hyp, inp) :
               IF st.err # NoErr \/ loss_raises(hyp)
               THEN /\ err' = IF st.err # NoErr THEN st.err
                              ELSE [kind |-> "assert", at |-> "rezoom_change_loss"]
                    /\ UNCHANGED <<losses, summaries, call, ncalls>>
               ELSE /\ losses' = Append(losses, loss_term(hyp, inp, mt))
                    /\ summaries' = summaries \cup delta_histograms(hyp, phase)
                    /\ ncalls' = ncalls + 1
                    /\ call' = [call EXCEPT ![phase] =
                               [phase |-> phase,
                                n_terms |-> Len(losses'),
                                inp |-> inp,
                                mt |-> mt,
                                loss |-> loss_term(hyp, inp, mt),
                                total_loss |-> total_loss(losses'),
                                confidences_loss |-> confidences_loss(hyp, inp, mt),
                                boxes_loss_l1 |-> boxes_loss_base(hyp, inp, mt),
                                delta_confs_loss |->
                                    IF hyp.use_rezoom
                                    THEN delta_confs_loss(hyp, inp, mt) ELSE None,
                                delta_boxes_loss |->
                                    IF hyp.use_rezoom /\ hyp.reregress
                                    THEN delta_boxes_loss(hyp, inp, mt) ELSE None,
                                boxes_loss |-> returned_boxes_loss(hyp, inp, mt)]]
                    /\ err' = err
    /\ UNCHANGED <<hyp, tf_variables, built, nweights, rezoom_out, files, last_image>>

\* another component (weight regularisation) registers its own loss term
WeightLosses == {Rat(1, 2)}

add_weight_loss ==
    /\ err = NoErr
    /\ nweights < MaxWeightLosses
    /\ \E w \in WeightLosses : losses' = Append(losses, w)
    /\ nweights' = nweights + 1
    /\ UNCHANGED <<hyp, tf_variables, built, summaries, call, ncalls, err,
                   rezoom_out, files, last_image>>

(* ------------------------------ _rezoom ------------------------------- *)
\* row-major position (from 0) of the multi-index m (from 0) in a tensor
RECURSIVE Ravel(_, _)
Ravel(m, shape) ==
    IF m = <<>> THEN 0
    ELSE Head(m) * Product(Tail(shape)) + Ravel(Tail(m), Tail(shape))

RECURSIVE Unravel(_, _)
Unravel(i, shape) ==
    IF shape = <<>> THEN <<>>
    ELSE <<i \div Product(Tail(shape))>> \o Unravel(i % Product(Tail(shape)), Tail(shape))

\* tf.transpose of a flat row-major tensor: axis i of the result is axis
\* perm[i] of the argument
Transpose(data, shape, perm) ==
    LET new_shape == [i \in 1..Len(shape) |-> shape[perm[i]]]
    IN  [i \in 1..Len(data) |->
           LET m == Unravel(i - 1, new_shape)
               old == [d \in 1..Len(shape) |->
                          m[CHOOSE a \in 1..Len(perm) : perm[a] = d]]
           IN  data[Ravel(old, shape) + 1]]

\* train_utils.bilinear_select: for every box of pred_boxes, in their order,
\* where to sample early_feat for the box center moved by the offset
bilinear_select(h, n_slots, w_offset, h_offset) ==
    [b \in 1..(outer_size(h) * n_slots) |->
        [w_offset |-> w_offset, h_offset |-> h_offset,
         cell |-> (b - 1) \div n_slots, slot |-> (b - 1) % n_slots]]

\* train_utils.interp: the early_feat_channels interpolated values of every
\* index, in the order of the indices
interp(indices, channels) ==
    [i \in 1..(Len(indices) * channels) |->
        [at |-> indices[((i - 1) \div channels) + 1], ch |-> (i - 1) % channels]]

\* faulty variant: the transpose [2, 1, 0, 3], slots before cells
rezoom_perm_swapped == <<3, 2, 1, 4>>

\* tf.transpose(rezoom_features_r, [1, 2, 0, 3]), axes counted from 1
rezoom_perm == <<2, 3, 1, 4>>

\* _rezoom on pred_boxes of shape [outer_size, n_slots, 4]
_rezoom(h, n_slots) ==
    LET w_offsets == h.rezoom_w_coords
        h_offsets == h.rezoom_h_coords
        channels == h.early_feat_channels
        indices == Flatten([wi \in 1..Len(w_offsets) |->
                       Flatten([hi \in 1..Len(h_offsets) |->
                           bilinear_select(h, n_slots, w_offsets[wi], h_offsets[hi])])])
        rezoom_features == interp(indices, channels)
        shape_r == <<Len(w_offsets) * Len(h_offsets), outer_size(h), h.rnn_len, channels>>
    IN  IF Len(rezoom_features) # Product(shape_r)
        THEN [status |-> "failed", data |-> <<>>, shape |-> <<>>]
        ELSE [status |-> "ok",
              data |-> Transpose(rezoom_features, shape_r, rezoom_perm),
              shape |-> <<outer_size(h), h.rnn_len,
                          Len(w_offsets) * Len(h_offsets) * channels>>]

NoRezoom == [status |-> "none", data |-> <<>>, shape |-> <<>>]

\* a direct call of _rezoom with one box per cell or one per slot
rezoom ==
    /\ rezoom_out = NoRezoom
    /\ \E n_slots \in {1, hyp.rnn_len} : rezoom_out' = _rezoom(hyp, n_slots)
    /\ UNCHANGED <<hyp, tf_variables, built, losses, summaries, call, ncalls, nweights,
                   err, files, last_image>>

(* --------------------------- evaluation ------------------------------- *)
\* faulty variant: the step itself cycles through the pool
image_index_of_step(h, np_global_step) == np_global_step % num_images

\* (np_global_step // display_iter) % num_images
image_index(h, np_global_step) == (np_global_step \div h.display_iter) % num_images

\* '%s_%s.jpg' % (index, pred_or_true)
image_filename(h, np_global_step, pred_or_true) ==
    ToString(image_index(h, np_global_step)) \o "_" \o pred_or_true \o ".jpg"

\* scp.misc.imsave(img_path, merged): create or overwrite
imsave(dir, name, content) ==
    [n \in DOMAIN dir \cup {name} |-> IF n = name THEN content ELSE dir[n]]

log_image(dir, h, np_global_step, pred_or_true) ==
    imsave(dir, image_filename(h, np_global_step, pred_or_true), np_global_step)

NoImage == [step |-> -1, pred |-> "", true |-> ""]

\* one run of the two py_func ops of evaluation(), fed the same global_step
image_summaries ==
    \E np_global_step \in 0..MaxStep :
        /\ files' = log_image(log_image(files, hyp, np_global_step, "pred"),
                              hyp, np_global_step, "true")
        /\ last_image' = [step |-> np_global_step,
                          pred |-> image_filename(hyp, np_global_step, "pred"),
                          true |-> image_filename(hyp, np_global_step, "true")]
        /\ UNCHANGED <<hyp, tf_variables, built, losses, summaries, call, ncalls,
                       nweights, err, rezoom_out>>

(* ------------------------- specifications ----------------------------- *)
OffsetLists == {<<0>>, <<-1, 1>>, <<-1, 0, 1>>}

HeadWeights == {<<RInt(2), Rat(1, 10)>>}

ChangeLoss == {"center", "iou", "", "other"}

\* every hyperparameter mapping of the model
Hypes ==
    [grid_width : 1..Max(MaxGridWidth, MaxCells), grid_height : {1}, batch_size : {1},
     rnn_len : 1..MaxRnnLen, num_classes : {2}, cnn_channels : {3},
     lstm_size : {2}, early_feat_channels : 1..MaxChannels,
     rezoom_w_coords : OffsetLists, rezoom_h_coords : OffsetLists,
     use_rezoom : BOOLEAN, reregress : BOOLEAN, use_lstm : BOOLEAN,
     rezoom_change_loss : ChangeLoss, head_weights : HeadWeights,
     display_iter : {1, 2, 5}]

InitState ==
    /\ tf_variables = {}
    /\ built = [p \in Phases |-> NotBuilt]
    /\ losses = <<>>
    /\ summaries = {}
    /\ call = [p \in Phases |-> NoCall]
    /\ ncalls = 0
    /\ nweights = 0
    /\ err = NoErr
    /\ rezoom_out = NoRezoom
    /\ files = <<>>
    /\ last_image = NoImage

\* graph construction: decoder() and loss() for both phases
Init ==
    /\ hyp \in {h \in Hypes :
                  /\ h.grid_width <= MaxGridWidth
                  /\ h.early_feat_channels = 2
                  /\ h.rezoom_w_coords = <<-1, 0, 1>>
                  /\ h.rezoom_h_coords = <<-1, 1>>
                  /\ h.display_iter = 1
                  /\ (~h.use_rezoom => h.rezoom_change_loss = "")}
    /\ InitState

Next ==
    \/ \E phase \in Phases : decoder(phase)
    \/ \E phase \in Phases : loss(phase)
    \/ add_weight_loss

Spec == Init /\ [][Next]_vars

\* _rezoom called on its own
InitRezoom ==
    /\ hyp \in {h \in Hypes :
                  /\ h.grid_width <= MaxCells
                  /\ ~h.use_rezoom /\ ~h.reregress /\ ~h.use_lstm
                  /\ h.rezoom_change_loss = ""
                  /\ h.display_iter = 1}
    /\ InitState

SpecRezoom == InitRezoom /\ [][rezoom]_vars

\* the image writer over the steps of a run
InitEval ==
    /\ hyp \in {h \in Hypes :
                  /\ h.grid_width = 1
                  /\ h.rnn_len = 1
                  /\ h.early_feat_channels = 1
                  /\ h.rezoom_w_coords = <<0>>
                  /\ h.rezoom_h_coords = <<0>>
                  /\ ~h.use_rezoom /\ ~h.reregress /\ ~h.use_lstm
                  /\ h.rezoom_change_loss = ""}
    /\ InitState

SpecEval == InitEval /\ [][image_summaries]_vars

(* ============================== claims ================================ *)
Called(p) == call[p] # NoCall

BuiltOk(p) == built[p].status = "ok"

Names(vs) == {v.name : v \in vs}

(* C1: with use_rezoom disabled, every triple loss() returns satisfies
   total_loss >= confidence_loss >= 0 and total_loss >= box_loss >= 0. *)
C1_LossOrder ==
    \A p \in Phases :
        (Called(p) /\ ~hyp.use_rezoom) =>
            /\ RLeq(RInt(0), call[p].confidences_loss)
            /\ RLeq(call[p].confidences_loss, call[p].total_loss)
            /\ RLeq(RInt(0), call[p].boxes_loss)
            /\ RLeq(call[p].boxes_loss, call[p].total_loss)

\* a call without rezoom whose three values are positive and distinct
C1_Witness ==
    \E p \in Phases :
        /\ Called(p) /\ ~hyp.use_rezoom /\ outer_size(hyp) > 1
        /\ RLess(RInt(0), call[p].confidences_loss)
        /\ RLess(RInt(0), call[p].boxes_loss)
        /\ RLess(call[p].confidences_loss, call[p].total_loss)
        /\ RLess(call[p].boxes_loss, call[p].total_loss)

(* C2 as stated: for every rnn_len >= 1 decoder() builds without a reshape
   element-count mismatch and returns pred_boxes of shape
   (outer_size, 1, 4) and pred_confidences of shape
   (outer_size, rnn_len, num_classes). *)
C2_AnyRnnLen ==
    \A p \in Phases :
        built[p].status # "none" =>
            /\ err.kind # "reshape"
            /\ BuiltOk(p) =>
                 /\ built[p].outs.pred_box = <<outer_size(hyp), 1, 4>>
                 /\ built[p].outs.pred_confidences =
                        <<outer_size(hyp), hyp.rnn_len, hyp.num_classes>>

(* C2 amended: with rnn_len = 1 decoder() builds without a reshape
   element-count mismatch and returns pred_boxes of shape (outer_size, 1, 4)
   and pred_confidences of shape (outer_size, 1, num_classes); with
   rnn_len >= 2 the build fails, the 'train' build at the reshape of
   pred_confidences. *)
C2_SingleSlot ==
    \A p \in Phases :
        built[p].status # "none" =>
            /\ hyp.rnn_len = 1 =>
                 /\ err.kind # "reshape"
                 /\ p = "train" => BuiltOk(p)
                 /\ BuiltOk(p) =>
                      /\ built[p].outs.pred_box = <<outer_size(hyp), 1, 4>>
                      /\ built[p].outs.pred_confidences =
                             <<outer_size(hyp), 1, hyp.num_classes>>
            /\ hyp.rnn_len >= 2 =>
                 /\ built[p].status = "failed"
                 /\ p = "train" => err = [kind |-> "reshape", at |-> "pred_confidences"]

\* both phases built with one slot per cell, several cells and rezoom
C2_Witness ==
    /\ hyp.rnn_len = 1 /\ outer_size(hyp) > 1 /\ hyp.use_rezoom
    /\ BuiltOk("train") /\ BuiltOk("val")

\* the weights of the decoder as the claim lists them
C3_Base == {"decoder/Overfeat/ip", "decoder/box_ip", "decoder/conf_ip"}

C3_Slot(k) == {"decoder/delta_ip1" \o ToString(k), "decoder/delta_ip2" \o ToString(k)}

C3_SlotBoxes(k) == {"decoder/delta_ip_boxes" \o ToString(k)}

C3_Listed(with_boxes) ==
    C3_Base \cup
    (IF hyp.use_rezoom
     THEN UNION {C3_Slot(k) \cup (IF with_boxes THEN C3_SlotBoxes(k) ELSE {})
                 : k \in 0..(hyp.rnn_len - 1)}
     ELSE {})

(* C3 as stated: after the 'train' build the 'val' build creates no variable
   and reads exactly the variables 'train' created: Overfeat/ip, box_ip,
   conf_ip and, with use_rezoom, delta_ip1k, delta_ip2k and delta_ip_boxesk
   of every slot; dropout is applied only in the 'train' build. *)
C3_ListedVariables ==
    (BuiltOk("train") /\ built["val"].status # "none") =>
        /\ BuiltOk("val")
        /\ built["val"].created = {}
        /\ built["val"].reads = built["train"].created
        /\ Names(built["train"].created) = C3_Listed(TRUE)
        /\ built["val"].dropouts = 0
        /\ built["train"].dropouts > 0

(* C3 amended: the same, with delta_ip_boxesk among the variables only when
   reregress is set as well as use_rezoom. *)
C3_SharedVariables ==
    (BuiltOk("train") /\ built["val"].status # "none") =>
        /\ BuiltOk("val")
        /\ built["val"].created = {}
        /\ built["val"].reads = built["train"].created
        /\ tf_variables = built["train"].created
        /\ Names(built["train"].created) = C3_Listed(hyp.reregress)
        /\ built["val"].dropouts = 0
        /\ built["train"].dropouts > 0

\* 'val' built after 'train' with rezoom and reregress
C3_Witness ==
    /\ BuiltOk("train") /\ BuiltOk("val")
    /\ hyp.use_rezoom /\ hyp.reregress
    /\ Cardinality(built["val"].reads) = 6

(* C4: every call of loss() registers exactly one new term in 'losses' and
   returns as total_loss the sum of all terms registered so far, by this
   call, by earlier calls and by other components. *)
C4_Registers ==
    [][ncalls' = ncalls + 1 =>
          /\ Len(losses') = Len(losses) + 1
          /\ SubSeq(losses', 1, Len(losses)) = losses
          /\ \E p \in Phases :
               /\ ~Called(p) /\ call'[p] # NoCall
               /\ losses'[Len(losses')] = call'[p].loss
               /\ call'[p].total_loss = RSum(losses')]_vars

\* loss('val') called after loss('train') and after another component's term
C4_Witness ==
    /\ Called("train") /\ Called("val") /\ nweights > 0
    /\ call["train"].n_terms < call["val"].n_terms
    /\ RLess(RInt(0), call["train"].loss)
    /\ call["val"].total_loss =
           RAdd(RAdd(call["train"].loss, call["val"].loss), RSum([i \in 1..nweights |-> Rat(1, 2)]))

(* C5: a configuration with reregress true and use_rezoom false is rejected
   while the graph is constructed: neither decoder() nor loss() completes
   for it. *)
C5_Rejected ==
    (hyp.reregress /\ ~hyp.use_rezoom) =>
        \A p \in Phases : ~BuiltOk(p) /\ ~Called(p)

\* the L1 distance of truth and prediction over the present slots only
C6_PresentL1(p) ==
    LET i == call[p].inp
        d(c) == IF i.flags[c] > 0
                THEN Abs(i.boxes[c][1] - i.pred_boxes[c][1])
                     + Abs(i.boxes[c][2] - i.pred_boxes[c][2])
                     + Abs(i.boxes[c][3] - i.pred_boxes[c][3])
                     + Abs(i.boxes[c][4] - i.pred_boxes[c][4])
                ELSE 0
    IN  SumTo([c \in Cells(hyp) |-> d(c)], outer_size(hyp))

(* C6: the regression term counts only present slots: a slot whose mask is
   0 contributes 0 whatever its predicted and ground-truth boxes are, and
   the term is the sum of |truth - prediction| over the present slots,
   divided by outer_size and multiplied by head_weights[1] (stated for the
   single-slot branch of loss()). *)
C6_MaskedL1 ==
    \A p \in Phases :
        (Called(p) /\ ~hyp.use_lstm) =>
            call[p].boxes_loss_l1 =
                RMul(RDivInt(RInt(C6_PresentL1(p)), outer_size(hyp)), hyp.head_weights[2])

(* C7: with use_rezoom and reregress the box_loss returned is the
   re-regression loss, not the base L1 loss; the re-regression loss is part of
   the term added to 'losses'. *)
C7_ReregressReturned ==
    \A p \in Phases :
        (Called(p) /\ hyp.use_rezoom /\ hyp.reregress) =>
            /\ call[p].boxes_loss = call[p].delta_boxes_loss
            /\ call[p].loss =
                   RAdd(RAdd(RAdd(call[p].confidences_loss, call[p].boxes_loss_l1),
                             call[p].delta_confs_loss),
                        call[p].delta_boxes_loss)
            /\ losses[call[p].n_terms] = call[p].loss

\* a reregress call whose base L1 loss differs from what is returned
C7_Witness ==
    \E p \in Phases :
        /\ Called(p) /\ hyp.use_rezoom /\ hyp.reregress
        /\ call[p].boxes_loss # call[p].boxes_loss_l1
        /\ RLess(RInt(0), call[p].boxes_loss)

\* the masked residual of the corrected box
C8_Residual(p, c, j) ==
    (call[p].mt.perm_truth[c][j]
       - (call[p].inp.pred_boxes[c][j] + call[p].inp.pred_boxes_deltas[c][j]))
    * call[p].mt.pred_mask[c]

C8_Clamped(p) ==
    LET q(c, j) == IF C8_Residual(p, c, j) * C8_Residual(p, c, j) > 100 THEN 100
                   ELSE C8_Residual(p, c, j) * C8_Residual(p, c, j)
    IN  SumTo([c \in Cells(hyp) |-> q(c, 1) + q(c, 2) + q(c, 3) + q(c, 4)],
              outer_size(hyp))

(* C8: with reregress every component of the squared delta residual is
   clamped to at most 100 before summation (r = 20 contributes 100), and the
   sum is divided by outer_size and weighted by head_weights[1] * 0.03. *)
C8_ClampedSquares ==
    \A p \in Phases :
        (Called(p) /\ hyp.use_rezoom /\ hyp.reregress) =>
            call[p].delta_boxes_loss =
                RMul(RMul(RDivInt(RInt(C8_Clamped(p)), outer_size(hyp)),
                          hyp.head_weights[2]),
                     Rat(3, 100))

\* a reregress call with a residual of 20 in a present slot
C8_Witness ==
    \E p \in Phases :
        /\ Called(p) /\ hyp.use_rezoom /\ hyp.reregress
        /\ \E c \in Cells(hyp), j \in 1..4 : Abs(C8_Residual(p, c, j)) = 20
        /\ \E c \in Cells(hyp), j \in 1..4 :
               C8_Residual(p, c, j) # 0 /\ Abs(C8_Residual(p, c, j)) < 10

(* C9: _rezoom keeps cell and slot order: the output element
   [c, k, o * early_feat_channels + ch], o = w_index * len(h_offsets) +
   h_index, is the sample taken for cell c, slot k at offset o, channel ch;
   with the single offset (0, 0) it is the sample at the predicted center. *)
C9_RezoomOrder ==
    rezoom_out.status = "ok" =>
        LET nw == Len(hyp.rezoom_w_coords)
            nh == Len(hyp.rezoom_h_coords)
            ch_n == hyp.early_feat_channels
        IN  /\ Len(rezoom_out.data) = outer_size(hyp) * hyp.rnn_len * nw * nh * ch_n
            /\ \A c \in 0..(outer_size(hyp) - 1), k \in 0..(hyp.rnn_len - 1),
                  wi \in 0..(nw - 1), hi \in 0..(nh - 1), ch \in 0..(ch_n - 1) :
                    rezoom_out.data[(c * hyp.rnn_len + k) * (nw * nh * ch_n)
                                    + (wi * nh + hi) * ch_n + ch + 1]
                    = [at |-> [w_offset |-> hyp.rezoom_w_coords[wi + 1],
                               h_offset |-> hyp.rezoom_h_coords[hi + 1],
                               cell |-> c, slot |-> k],
                       ch |-> ch]

\* several cells, slots, offsets in both directions and channels
C9_Witness ==
    /\ rezoom_out.status = "ok"
    /\ outer_size(hyp) > 1 /\ hyp.rnn_len > 1 /\ hyp.early_feat_channels > 1
    /\ Len(hyp.rezoom_w_coords) = 3 /\ Len(hyp.rezoom_h_coords) = 2

C10_Pool(kind) == {ToString(i) \o "_" \o kind \o ".jpg" : i \in 0..9}

(* C10: the image writer names its file '<i>_<pred|true>.jpg' with
   i = (global_step // display_iter) mod 10, so at most 10 'pred' and 10
   'true' files ever exist, and steps whose quotients differ by a multiple
   of 10 write the same file, the later overwriting the earlier. *)
C10_ImagePool ==
    /\ DOMAIN files \subseteq C10_Pool("pred") \cup C10_Pool("true")
    /\ Cardinality(DOMAIN files \cap C10_Pool("pred")) <= 10
    /\ Cardinality(DOMAIN files \cap C10_Pool("true")) <= 10
    /\ \A kind \in {"pred", "true"}, i \in 0..9 :
         LET n == ToString(i) \o "_" \o kind \o ".jpg"
         IN  n \in DOMAIN files =>
               /\ files[n] \in 0..MaxStep
               /\ ((files[n] \div hyp.display_iter) - i) % 10 = 0
    /\ last_image.step >= 0 =>
         /\ last_image.pred \in C10_Pool("pred")
         /\ last_image.true \in C10_Pool("true")
         /\ files[last_image.pred] = last_image.step
         /\ files[last_image.true] = last_image.step

\* all twenty files exist and the latest step wrapped around the pool
C10_Witness ==
    /\ Cardinality(DOMAIN files) = 20
    /\ last_image.step \div hyp.display_iter >= 10
    /\ files["0_pred.jpg"] = 10 /\ last_image.step = 10

====
